---- MODULE Spec2Model ----
(***************************************************************************)
(* Model of the vanity address service of src/src/main.rs: the pool behind *)
(* a tokio RwLock, the background refill loop (generate_pool), the search  *)
(* batch on a rayon worker (generate_vanity_batch_fast) and the request    *)
(* handlers that draw from the pool or query its size.                     *)
(***************************************************************************)
EXTENDS Integers, Sequences, FiniteSets, Bags, TLC

(* ---------------- bounds of the model ---------------- *)
\* largest configured pool_size (VANITY_POOL_SIZE) explored
MaxPoolSize == 2
\* most workers still running after their found buffer was taken: the 60 s
\* sleep of a batch ends only when fewer are left
MaxStale == 1
\* most matches pushed to an uncollected found buffer in one run; further
\* draws for such a buffer are non-matching seeds
MaxUid == 2

(* ---------------- program constants, scaled ---------------- *)
\* attempts < 10_000_000
AttemptCeiling == 2
\* .take(32)
SeedLen == 1
\* number of distinct public keys (stands for the 2^256 key space)
HashSpace == 4
\* length of the textual form of a public key
AddrLen == 2

\* rand::distr::Alphanumeric
Alphanumeric == <<"a", "b">>
\* the bs58 alphabet of Pubkey::to_string
Base58 == <<"1", "2">>
\* spl_token::id()
SplTokenId == 1
\* VANITY_SUFFIX values explored
Suffixes == {<<"2">>}
\* Keypair::new() for the authority
AuthorityKeys == {0}
\* the request tasks served concurrently by axum
Callers == {"c1", "c2"}

None == [some |-> FALSE]
Some(v) == [some |-> TRUE, val |-> v]

(* ---------------- AddressDeriver ---------------- *)
RECURSIVE SeqSum(_, _)
SeqSum(s, i) ==
    IF i > Len(s) THEN 0
    ELSE i * (CHOOSE k \in 1..Len(Alphanumeric) : Alphanumeric[k] = s[i])
         + SeqSum(s, i + 1)

\* all seeds the sampler can produce: SeedLen characters of Alphanumeric
Seeds == [1..SeedLen -> {Alphanumeric[k] : k \in 1..Len(Alphanumeric)}]

\* Pubkey::create_with_seed(base, seed, owner): Err on an over-long seed,
\* else a key that is a fixed function (a hash) of the three inputs
MAX_SEED_LEN == SeedLen
CreateWithSeed(base, seed, owner) ==
    IF Len(seed) > MAX_SEED_LEN
    THEN [ok |-> FALSE]
    ELSE [ok |-> TRUE, key |-> (base + owner + SeqSum(seed, 1)) % HashSpace]

RECURSIVE Digits(_, _)
Digits(h, n) ==
    IF n = 0 THEN <<>>
    ELSE Append(Digits(h \div Len(Base58), n - 1), Base58[(h % Len(Base58)) + 1])

\* Pubkey::to_string: fixed-width digits over the bs58 alphabet
PubkeyToString(key) == Digits(key, AddrLen)

\* str::parse::<Pubkey>(): Ok only for the textual form of some key
ParsePubkey(str) ==
    IF \E k \in 0..(HashSpace - 1) : PubkeyToString(k) = str
    THEN [ok |-> TRUE, key |-> CHOOSE k \in 0..(HashSpace - 1) : PubkeyToString(k) = str]
    ELSE [ok |-> FALSE]

\* str::ends_with
EndsWith(str, suf) ==
    /\ Len(suf) <= Len(str)
    /\ SubSeq(str, Len(str) - Len(suf) + 1, Len(str)) = suf

(* ---------------- state ---------------- *)
VARIABLES
    pool,               \* VanityService.pool: Vec<(seed, pubkey)>
    lock,               \* the tokio RwLock around pool: writer and readers
    pool_size,          \* VanityService.pool_size (the capacity)
    suffix,             \* VanityService.suffix
    authority_pubkey,   \* VanityService.authority_keypair.pubkey()
    rpc,                \* position of the generate_pool task
    needed,             \* generate_pool: needed (of the last cycle)
    new_vanity,         \* generate_pool: new_vanity, drained by extend
    batch,              \* the search whose found buffer the loop still holds
    stale,              \* workers still running after their buffer was taken
    nextUid,            \* serial number given to the next match (ghost)
    hpc,                \* position of each request handler
    hlocal,             \* what get_next_vanity returned to the handler
    resp,               \* status of the response sent last
    delivered,          \* ghost: how often each match was returned by take
    merged,             \* ghost: how often each match was pushed to the pool
    steady              \* ghost: no take so far, every batch came back full

vars == <<pool, lock, pool_size, suffix, authority_pubkey, rpc, needed,
          new_vanity, batch, stale, nextUid, hpc, hlocal, resp, delivered,
          merged, steady>>

refillVars == <<rpc, needed, new_vanity>>
searchVars == <<batch, stale, nextUid>>
handlerVars == <<hpc, hlocal, resp>>
configVars == <<pool_size, suffix, authority_pubkey>>

NoBatch == [count |-> 0, found |-> <<>>, attempts |-> 0]
NoResp == [status |-> 0, cause |-> "none", route |-> "none"]
Unlocked == [writer |-> "none", readers |-> {}]

\* RwLock::read() can be granted: no writer holds the lock
CanRead == lock.writer = "none"
\* RwLock::write() can be granted: nobody holds the lock
CanWrite == lock.writer = "none" /\ lock.readers = {}

\* VanityService::new, then main up to axum::serve
Init ==
    /\ pool = <<>>
    /\ lock = Unlocked
    /\ pool_size \in 0..MaxPoolSize
    /\ suffix \in Suffixes
    /\ authority_pubkey \in AuthorityKeys
    /\ rpc = "loop"
    /\ needed = 0
    /\ new_vanity = <<>>
    /\ batch = NoBatch
    /\ stale = EmptyBag
    /\ nextUid = 1
    /\ hpc = [c \in Callers |-> "idle"]
    /\ hlocal = [c \in Callers |-> None]
    /\ resp = NoResp
    /\ delivered = [u \in 1..MaxUid |-> 0]
    /\ merged = [u \in 1..MaxUid |-> 0]
    /\ steady = TRUE

(* ---------------- generate_pool ---------------- *)
\* self.pool.read().await
RefillReadLock ==
    /\ rpc = "loop"
    /\ CanRead
    /\ lock' = [lock EXCEPT !.readers = @ \cup {"refill"}]
    /\ rpc' = "len"
    /\ UNCHANGED <<pool, configVars, needed, new_vanity, searchVars,
                   handlerVars, delivered, merged, steady>>

\* a size check that always asks for a whole pool
RefillObserve_AsksCapacity ==
    /\ rpc = "len"
    /\ lock' = [lock EXCEPT !.readers = @ \ {"refill"}]
    /\ LET current_size == Len(pool)
       IN  IF current_size >= pool_size
           THEN /\ rpc' = "sleep"
                /\ UNCHANGED needed
           ELSE /\ rpc' = "launch"
                /\ needed' = pool_size
    /\ UNCHANGED <<pool, configVars, new_vanity, searchVars, handlerVars,
                   delivered, merged, steady>>

\* a size check that asks for one entry less than is missing
RefillObserve_OneShort ==
    /\ rpc = "len"
    /\ lock' = [lock EXCEPT !.readers = @ \ {"refill"}]
    /\ LET current_size == Len(pool)
       IN  IF current_size >= pool_size
           THEN /\ rpc' = "sleep"
                /\ UNCHANGED needed
           ELSE /\ rpc' = "launch"
                /\ needed' = pool_size - current_size - 1
    /\ UNCHANGED <<pool, configVars, new_vanity, searchVars, handlerVars,
                   delivered, merged, steady>>

\* a size check that lets the loop through when the pool is exactly full
RefillObserve_StrictCompare ==
    /\ rpc = "len"
    /\ lock' = [lock EXCEPT !.readers = @ \ {"refill"}]
    /\ LET current_size == Len(pool)
       IN  IF current_size > pool_size
           THEN /\ rpc' = "sleep"
                /\ UNCHANGED needed
           ELSE /\ rpc' = "launch"
                /\ needed' = pool_size - current_size
    /\ UNCHANGED <<pool, configVars, new_vanity, searchVars, handlerVars,
                   delivered, merged, steady>>

\* a size check whose read guard lives on to the end of the loop body
RefillObserve_KeepsGuard ==
    /\ rpc = "len"
    /\ LET current_size == Len(pool)
       IN  IF current_size >= pool_size
           THEN /\ rpc' = "sleep"
                /\ UNCHANGED needed
           ELSE /\ rpc' = "launch"
                /\ needed' = pool_size - current_size
    /\ UNCHANGED <<pool, lock, configVars, new_vanity, searchVars,
                   handlerVars, delivered, merged, steady>>

\* .len(), the guard dropped at the end of the statement, then the
\* comparison with pool_size and needed = pool_size - current_size
RefillObserve ==
    /\ rpc = "len"
    /\ lock' = [lock EXCEPT !.readers = @ \ {"refill"}]
    /\ LET current_size == Len(pool)
       IN  IF current_size >= pool_size
           THEN /\ rpc' = "sleep"
                /\ UNCHANGED needed
           ELSE /\ rpc' = "launch"
                /\ needed' = pool_size - current_size
    /\ UNCHANGED <<pool, configVars, new_vanity, searchVars, handlerVars,
                   delivered, merged, steady>>

\* an idle branch that leaves the loop (break for continue)
RefillSleep_Break ==
    /\ rpc = "sleep"
    /\ rpc' = "exit"
    /\ UNCHANGED <<pool, lock, configVars, needed, new_vanity, searchVars,
                   handlerVars, delivered, merged, steady>>

\* tokio::time::sleep(1s) is over; continue
RefillSleep ==
    /\ rpc = "sleep"
    /\ rpc' = "loop"
    /\ UNCHANGED <<pool, lock, configVars, needed, new_vanity, searchVars,
                   handlerVars, delivered, merged, steady>>

\* the closures generate_vanity_batch_fast hands to rayon for one batch: a
\* single rayon::spawn; no parallel iterator is used
BatchClosures == {"spawn"}

\* generate_vanity_batch_fast(needed) up to the sleep: a fresh found buffer
\* and one closure handed to rayon::spawn
RefillLaunch ==
    /\ rpc = "launch"
    /\ batch' = [count |-> needed, found |-> <<>>, attempts |-> 0]
    /\ rpc' = "wait"
    /\ UNCHANGED <<pool, lock, configVars, needed, new_vanity, stale, nextUid,
                   handlerVars, delivered, merged, steady>>

\* a loop condition without the attempt ceiling
Searching_NoCeiling(bt) == Len(bt.found) < bt.count

\* a loop condition that lets the worker in with count entries found
Searching_Inclusive(bt) ==
    Len(bt.found) <= bt.count /\ bt.attempts < AttemptCeiling

\* while found.len() < count && attempts < 10_000_000
Searching(bt) == Len(bt.found) < bt.count /\ bt.attempts < AttemptCeiling

\* the workers still running after std::mem::take(&mut *found.lock().await):
\* unless its closure has returned, the worker of this batch tests the loop
\* condition on the emptied buffer and goes on if it holds
Orphaned(bt, st, returned) ==
    IF ~returned /\ Searching([bt EXCEPT !.found = <<>>])
    THEN st (+) SetToBag({[bt EXCEPT !.found = <<>>]})
    ELSE st

\* a collection that returns nothing when the batch is short of count
RefillCollect_DropsPartial ==
    /\ rpc = "wait"
    /\ \E returned \in IF Searching(batch) THEN {FALSE} ELSE BOOLEAN :
          /\ Orphaned(batch, stale, returned) /= stale =>
                BagCardinality(stale) + 1 <= MaxStale
          /\ stale' = Orphaned(batch, stale, returned)
    /\ new_vanity' = IF Len(batch.found) < batch.count
                     THEN <<>> ELSE batch.found
    /\ batch' = NoBatch
    /\ steady' = (steady /\ Len(batch.found) = batch.count)
    /\ rpc' = "wlock"
    /\ UNCHANGED <<pool, lock, configVars, needed, nextUid, handlerVars,
                   delivered, merged>>

\* the 60 s sleep is over: lock found and take its contents.  A worker
\* whose loop condition is still true has not returned; one whose last test
\* would fail may or may not have made that test yet.
RefillCollect ==
    /\ rpc = "wait"
    /\ \E returned \in IF Searching(batch) THEN {FALSE} ELSE BOOLEAN :
          /\ Orphaned(batch, stale, returned) /= stale =>
                BagCardinality(stale) + 1 <= MaxStale
          /\ stale' = Orphaned(batch, stale, returned)
    /\ new_vanity' = batch.found
    /\ batch' = NoBatch
    /\ steady' = (steady /\ Len(batch.found) = batch.count)
    /\ rpc' = "wlock"
    /\ UNCHANGED <<pool, lock, configVars, needed, nextUid, handlerVars,
                   delivered, merged>>

\* a merge that asks for the read lock
RefillWriteLock_ReadLock ==
    /\ rpc = "wlock"
    /\ CanRead
    /\ lock' = [lock EXCEPT !.readers = @ \cup {"refill"}]
    /\ rpc' = "extend"
    /\ UNCHANGED <<pool, configVars, needed, new_vanity, searchVars,
                   handlerVars, delivered, merged, steady>>

\* self.pool.write().await
RefillWriteLock ==
    /\ rpc = "wlock"
    /\ CanWrite
    /\ lock' = [lock EXCEPT !.writer = "refill"]
    /\ rpc' = "extend"
    /\ UNCHANGED <<pool, configVars, needed, new_vanity, searchVars,
                   handlerVars, delivered, merged, steady>>

\* an extend that never advances its iterator
RefillExtend_NoDrain ==
    /\ rpc = "extend"
    /\ new_vanity /= <<>>
    /\ pool' = Append(pool, Head(new_vanity))
    /\ merged' = [merged EXCEPT ![Head(new_vanity).uid] = @ + 1]
    /\ UNCHANGED <<lock, configVars, rpc, needed, new_vanity, searchVars,
                   handlerVars, delivered, steady>>

\* pool.extend(new_vanity): one push per element
RefillExtend ==
    /\ rpc = "extend"
    /\ new_vanity /= <<>>
    /\ pool' = Append(pool, Head(new_vanity))
    /\ new_vanity' = Tail(new_vanity)
    /\ merged' = [merged EXCEPT ![Head(new_vanity).uid] = @ + 1]
    /\ UNCHANGED <<lock, configVars, rpc, needed, searchVars, handlerVars,
                   delivered, steady>>

\* end of the block: the write guard is dropped, back to the top of the loop
RefillRelease ==
    /\ rpc = "extend"
    /\ new_vanity = <<>>
    /\ lock' = [lock EXCEPT !.writer = "none"]
    /\ rpc' = "loop"
    /\ UNCHANGED <<pool, configVars, needed, new_vanity, searchVars,
                   handlerVars, delivered, merged, steady>>

(* ---------------- the rayon worker of a batch ---------------- *)
\* a test that forgets the suffix
Matches_AnyAddress(auth, seed, suf) ==
    CreateWithSeed(auth, seed, SplTokenId).ok

\* the seed passes: create_with_seed is Ok and the text ends with suffix
Matches(auth, seed, suf) ==
    LET r == CreateWithSeed(auth, seed, SplTokenId)
    IN  r.ok /\ EndsWith(PubkeyToString(r.key), suf)

\* the found buffer after one attempt with this seed
Attempt(found, auth, seed, suf, uid) ==
    IF Matches(auth, seed, suf)
    THEN Append(found,
                [seed |-> seed,
                 pubkey |-> PubkeyToString(CreateWithSeed(auth, seed, SplTokenId).key),
                 uid |-> uid])
    ELSE found

\* a turn that goes to the next seed without counting a failed derivation
Turn_ErrNotCounted(bt, seed, uid) ==
    IF CreateWithSeed(authority_pubkey, seed, SplTokenId).ok
    THEN [bt EXCEPT !.found = Attempt(@, authority_pubkey, seed, suffix, uid),
                    !.attempts = @ + 1]
    ELSE bt

\* one turn of the while loop: the condition, then random seed, derive,
\* test, push and attempts += 1
Turn(bt, seed, uid) ==
    [bt EXCEPT !.found = Attempt(@, authority_pubkey, seed, suffix, uid),
               !.attempts = @ + 1]

\* a turn of the worker whose buffer the refill loop will collect
WorkerAttempt ==
    /\ rpc = "wait"
    /\ Searching(batch)
    /\ \E seed \in Seeds :
          /\ Matches(authority_pubkey, seed, suffix) => nextUid <= MaxUid
          /\ batch' = Turn(batch, seed, nextUid)
          /\ nextUid' = IF Matches(authority_pubkey, seed, suffix)
                        THEN nextUid + 1 ELSE nextUid
    /\ UNCHANGED <<pool, lock, configVars, refillVars, stale, handlerVars,
                   delivered, merged, steady>>

\* the workers running on after a turn of worker w: w returns when its
\* loop condition has become false
AfterTurn(st, w, w2) ==
    IF Searching(w2)
    THEN (st (-) SetToBag({w})) (+) SetToBag({w2})
    ELSE st (-) SetToBag({w})

\* a turn of a worker whose buffer was already taken; what it pushes is
\* in no buffer the refill loop reads and carries serial number 0
StaleAttempt ==
    \E w \in BagToSet(stale), seed \in Seeds :
        /\ Searching(w)
        /\ stale' = AfterTurn(stale, w, Turn(w, seed, 0))
        /\ UNCHANGED <<pool, lock, configVars, refillVars, batch, nextUid,
                       handlerVars, delivered, merged, steady>>

(* ---------------- VanityService::get_next_vanity ---------------- *)
\* a pop that hands out the last element and leaves it in the vector
Pop_Peek(v) ==
    IF v = <<>>
    THEN [rest |-> v, ret |-> None]
    ELSE [rest |-> v, ret |-> Some(v[Len(v)])]

\* a pop that takes a vector of one element for an empty one
Pop_OffByOne(v) ==
    IF Len(v) <= 1
    THEN [rest |-> v, ret |-> None]
    ELSE [rest |-> SubSeq(v, 1, Len(v) - 1), ret |-> Some(v[Len(v)])]

\* a pop that shortens the vector by two and hands out the last element
Pop_Truncate(v) ==
    IF v = <<>>
    THEN [rest |-> v, ret |-> None]
    ELSE [rest |-> IF Len(v) = 1 THEN <<>> ELSE SubSeq(v, 1, Len(v) - 2),
          ret |-> Some(v[Len(v)])]

\* Vec::pop: the last element and the vector without it
Pop(v) ==
    IF v = <<>>
    THEN [rest |-> v, ret |-> None]
    ELSE [rest |-> SubSeq(v, 1, Len(v) - 1), ret |-> Some(v[Len(v)])]

\* self.pool.write().await, pool.pop(), the guard dropped on return
GetNextVanity(c) ==
    /\ CanWrite
    /\ pool' = Pop(pool).rest
    /\ hlocal' = [hlocal EXCEPT ![c] = Pop(pool).ret]
    /\ delivered' = IF Pop(pool).ret.some
                    THEN [delivered EXCEPT ![Pop(pool).ret.val.uid] = @ + 1]
                    ELSE delivered
    /\ steady' = FALSE
    /\ UNCHANGED <<lock, merged>>

(* ---------------- VanityService::pool_size ---------------- *)
\* self.pool.read().await.len(), the guard dropped on return
PoolSize == Len(pool)

(* ---------------- the request handlers ---------------- *)
\* Option<bool>::unwrap_or
UnwrapOr(opt, default) == IF opt.some THEN opt.val ELSE default

\* the seed "random" of an address that did not come from the pool
RandomSeed == <<"r", "a", "n", "d", "o", "m">>

\* a fallback that puts the word "random" in both halves of the pair
Binding_RandomWord(taken, random_key) ==
    IF taken.some
    THEN [seed |-> taken.val.seed, vanity_pubkey |-> taken.val.pubkey]
    ELSE [seed |-> RandomSeed, vanity_pubkey |-> RandomSeed]

\* the (seed, vanity_pubkey) binding: unwrap_or_else with a random keypair
Binding(taken, random_key) ==
    IF taken.some
    THEN [seed |-> taken.val.seed, vanity_pubkey |-> taken.val.pubkey]
    ELSE [seed |-> RandomSeed, vanity_pubkey |-> PubkeyToString(random_key)]

\* the handler from the binding to its response: parse, pump_client call
CreateOutcome(taken, random_key, client_ok) ==
    IF ~ParsePubkey(Binding(taken, random_key).vanity_pubkey).ok
    THEN [status |-> 500, cause |-> "parse", route |-> "create"]
    ELSE IF client_ok
    THEN [status |-> 200, cause |-> "none", route |-> "create"]
    ELSE [status |-> 500, cause |-> "client", route |-> "create"]

\* the responses a handler can end with once it holds what take() gave
Responses(taken) ==
    {CreateOutcome(taken, random_key, client_ok) :
        random_key \in 0..(HashSpace - 1), client_ok \in BOOLEAN}

\* /tx/create and /tx/create-and-buy: with use_vanity absent or true the
\* handler calls get_next_vanity and goes on to the pump_client call, else
\* it answers from a random keypair without touching the pool
CreateRequest(c) ==
    /\ hpc[c] = "idle"
    /\ \E use_vanity \in {None, Some(TRUE), Some(FALSE)} :
          IF UnwrapOr(use_vanity, TRUE)
          THEN /\ GetNextVanity(c)
               /\ hpc' = [hpc EXCEPT ![c] = "got"]
               /\ UNCHANGED resp
          ELSE /\ resp' \in Responses(None)
               /\ UNCHANGED <<pool, lock, hpc, hlocal, delivered, merged, steady>>
    /\ UNCHANGED <<configVars, refillVars, searchVars>>

\* the pump_client call has returned: the response
CreateFinish(c) ==
    /\ hpc[c] = "got"
    /\ resp' \in Responses(hlocal[c])
    /\ hpc' = [hpc EXCEPT ![c] = "idle"]
    /\ hlocal' = [hlocal EXCEPT ![c] = None]
    /\ UNCHANGED <<pool, lock, configVars, refillVars, searchVars, delivered, merged,
                   steady>>

\* /health and /vanity/stats: the handler calls pool_size under the read
\* lock and answers 200; of the body only the route is kept
SizeRequest(c) ==
    /\ hpc[c] = "idle"
    /\ CanRead
    /\ PoolSize = Len(pool)
    /\ resp' = [status |-> 200, cause |-> "none", route |-> "size"]
    /\ UNCHANGED <<pool, lock, configVars, refillVars, searchVars, hpc,
                   hlocal, delivered, merged, steady>>

Next ==
    \/ RefillReadLock
    \/ RefillObserve
    \/ RefillSleep
    \/ RefillLaunch
    \/ RefillCollect
    \/ RefillWriteLock
    \/ RefillExtend
    \/ RefillRelease
    \/ WorkerAttempt
    \/ StaleAttempt
    \/ \E c \in Callers : CreateRequest(c)
    \/ \E c \in Callers : CreateFinish(c)
    \/ \E c \in Callers : SizeRequest(c)

Spec == Init /\ [][Next]_vars

\* the next step of the generate_pool task, wherever it stands
GeneratePool ==
    \/ RefillReadLock
    \/ RefillObserve
    \/ RefillSleep
    \/ RefillLaunch
    \/ RefillCollect
    \/ RefillWriteLock
    \/ RefillExtend
    \/ RefillRelease

\* Scheduling: the tokio runtime keeps polling the generate_pool task and
\* its timers fire, the rayon pool keeps running the spawned closures, and
\* the RwLock is free whenever generate_pool asks for it except during the
\* lock sections of handlers, which end without waiting.  Requests are not
\* required to arrive.
Fairness ==
    /\ WF_vars(GeneratePool)
    /\ WF_vars(WorkerAttempt)
    /\ WF_vars(StaleAttempt)

\* the same program serving its create requests one at a time; pool_size
\* queries, which change nothing the refill loop reads, are left out
OneAtATime == {"c1"}

LiveNext ==
    \/ RefillReadLock
    \/ RefillObserve
    \/ RefillSleep
    \/ RefillLaunch
    \/ RefillCollect
    \/ RefillWriteLock
    \/ RefillExtend
    \/ RefillRelease
    \/ WorkerAttempt
    \/ StaleAttempt
    \/ \E c \in OneAtATime : CreateRequest(c)
    \/ \E c \in OneAtATime : CreateFinish(c)

FairSpec == Init /\ [][LiveNext]_vars /\ Fairness

(* ---------------- the closure of one batch on its own ---------------- *)
\* seeds of any length up to one more than create_with_seed accepts
AnySeeds ==
    UNION {[1..n -> {Alphanumeric[k] : k \in 1..Len(Alphanumeric)}] :
              n \in 1..(MAX_SEED_LEN + 1)}

\* VANITY_SUFFIX values of any kind: every address ends with the first one
\* and none with the last one
AnySuffixes == {<<>>, <<"1">>, <<"2">>, <<"1", "2">>, <<"1", "1", "1">>}

\* a service of any suffix and authority key, at its first call of
\* generate_vanity_batch_fast(pool_size), the closure just spawned
WorkerInit ==
    /\ pool = <<>>
    /\ lock = Unlocked
    /\ pool_size \in 1..MaxPoolSize
    /\ suffix \in AnySuffixes
    /\ authority_pubkey \in 0..(HashSpace - 1)
    /\ rpc = "wait"
    /\ needed = pool_size
    /\ new_vanity = <<>>
    /\ batch = [count |-> pool_size, found |-> <<>>, attempts |-> 0]
    /\ stale = EmptyBag
    /\ nextUid = 1
    /\ hpc = [c \in Callers |-> "idle"]
    /\ hlocal = [c \in Callers |-> None]
    /\ resp = NoResp
    /\ delivered = [u \in 1..MaxUid |-> 0]
    /\ merged = [u \in 1..MaxUid |-> 0]
    /\ steady = TRUE

\* one turn of the closure's while loop on any seed, before or after its
\* buffer was taken
LoopTurn ==
    /\ rpc \in {"wait", "wlock"}
    /\ Searching(batch)
    /\ \E seed \in AnySeeds : batch' = Turn(batch, seed, 0)
    /\ UNCHANGED <<pool, lock, configVars, refillVars, stale, nextUid,
                   handlerVars, delivered, merged, steady>>

\* the 60 s sleep is over, found.lock().await and std::mem::take, seen from
\* the closure: its buffer is emptied under it and it runs on
TakeFound ==
    /\ rpc = "wait"
    /\ new_vanity' = batch.found
    /\ batch' = [batch EXCEPT !.found = <<>>]
    /\ rpc' = "wlock"
    /\ UNCHANGED <<pool, lock, configVars, needed, stale, nextUid,
                   handlerVars, delivered, merged, steady>>

WorkerNext ==
    \/ LoopTurn
    \/ TakeFound

\* the rayon pool keeps running the closure
WorkerSpec == WorkerInit /\ [][WorkerNext]_vars /\ WF_vars(LoopTurn)

(* ======================================================================= *)
(* Properties                                                              *)
(* ======================================================================= *)
\* the entries of a sequence, as a set
Range(q) == {q[i] : i \in 1..Len(q)}

\* a sequence without its i-th element
RemoveAt(q, i) == SubSeq(q, 1, i - 1) \o SubSeq(q, i + 1, Len(q))

\* the entries handlers hold after get_next_vanity returned Some
Held == {hlocal[c].val : c \in {d \in Callers : hlocal[d].some}}

\* caller c has just been through get_next_vanity in this step
Took(c) == hpc[c] = "idle" /\ hpc'[c] = "got"

(* C1: at-most-once delivery.  Under every interleaving of take() calls   *)
(* with each other and with the refill loop, no entry is returned by      *)
(* take() more than once, an entry that was returned is no longer in the  *)
(* Pool, and two callers never hold the same entry.                       *)
C1_AtMostOnceDelivery ==
    /\ \A u \in 1..MaxUid : delivered[u] <= 1
    /\ \A u \in 1..MaxUid :
          delivered[u] = 1 => \A e \in Range(pool) : e.uid /= u
    /\ \A i, j \in 1..Len(pool) : pool[i].uid = pool[j].uid => i = j
    /\ \A c, d \in Callers :
          (hlocal[c].some /\ hlocal[d].some /\ hlocal[c].val.uid = hlocal[d].val.uid)
             => c = d

\* two take() calls in flight after a run that produced a single entry: one
\* holds the entry, the other got None
C1_Witness ==
    /\ nextUid = 2
    /\ \E c, d \in Callers :
          /\ hpc[c] = "got" /\ hlocal[c].some
          /\ hpc[d] = "got" /\ ~hlocal[d].some

(* C2: suffix invariant.  Every entry in the Pool, on its way into the    *)
(* Pool, or returned by take() has an address that is the derivation of   *)
(* its seed under the authority key and that ends with the suffix.        *)
WellDerived(e) ==
    /\ CreateWithSeed(authority_pubkey, e.seed, SplTokenId).ok
    /\ e.pubkey = PubkeyToString(CreateWithSeed(authority_pubkey, e.seed, SplTokenId).key)
    /\ EndsWith(e.pubkey, suffix)

C2_SuffixInvariant ==
    \A e \in Range(pool) \cup Range(new_vanity) \cup Range(batch.found) \cup Held :
        WellDerived(e)

\* an entry sits in the Pool while another one is held by a handler
C2_Witness == pool /= <<>> /\ Held /= {}

(* C3: take() on a non-empty Pool removes exactly one entry and returns   *)
(* it, the other entries unchanged; take() on an empty Pool returns None  *)
(* and leaves the Pool unchanged, and the handler goes on either way.     *)
C3_TakeRemovesOne ==
    [][\A c \in Callers : Took(c) =>
          IF pool /= <<>>
          THEN \E i \in 1..Len(pool) :
                  /\ hlocal'[c] = Some(pool[i])
                  /\ pool' = RemoveAt(pool, i)
          ELSE hlocal'[c] = None /\ pool' = pool]_vars

\* a take() has returned an entry from a Pool of two, one entry is left
C3_Witness ==
    /\ Len(pool) = 1
    /\ \E c \in Callers : hpc[c] = "got" /\ hlocal[c].some
                          /\ hlocal[c].val.uid > pool[1].uid

(* C4: capacity bound.  The Pool never holds more than capacity plus the  *)
(* batch size requested in the last refill cycle.                         *)
C4_CapacityBound == Len(pool) <= pool_size + needed

\* a full Pool after a cycle that asked for the whole capacity
C4_Witness == pool_size > 0 /\ Len(pool) = pool_size /\ needed = pool_size

(* C7: with capacity 0 the refill loop never launches a search batch: it  *)
(* stays in the size check and the idle sleep, the Pool stays empty and   *)
(* every take() returns None.                                             *)
C7_ZeroCapacityIdles ==
    pool_size = 0 =>
        /\ rpc \in {"loop", "len", "sleep"}
        /\ batch = NoBatch /\ stale = EmptyBag /\ nextUid = 1
        /\ pool = <<>> /\ new_vanity = <<>>
        /\ \A c \in Callers : hpc[c] = "got" => hlocal[c] = None

\* capacity 0: the loop idles while a take() has come back empty
C7_Witness ==
    /\ pool_size = 0
    /\ rpc = "sleep"
    /\ \E c \in Callers : hpc[c] = "got" /\ hlocal[c] = None

(* C8: the refill loop holds the Pool lock only for the size observation  *)
(* (read) and for the merge (write); while it idles, launches or waits    *)
(* for a batch it holds no guard, so size() and take() can be granted the *)
(* lock at once.                                                          *)
C8_NoLockAcrossBatch ==
    /\ ("refill" \in lock.readers) <=> (rpc = "len")
    /\ (lock.writer = "refill") <=> (rpc = "extend")
    /\ rpc \in {"loop", "sleep", "launch", "wait", "wlock"} =>
          CanRead /\ CanWrite

\* a take() has completed while the batch is being searched and waited for
C8_Witness ==
    /\ rpc = "wait" /\ Searching(batch) /\ batch.attempts > 0
    /\ ~steady
    /\ \E c \in Callers : hpc[c] = "got"

(* C9: pool exhaustion fallback.  When take() returned None to a create   *)
(* handler, the handler goes on with the seed "random" and the address of *)
(* a fresh keypair, which always parses; its response is never the parse  *)
(* failure, only the pump_client call can fail it; and a take() on an     *)
(* empty Pool leaves the Pool unchanged.                                  *)
C9_ExhaustionFallback ==
    /\ [](\A c \in Callers : (hpc[c] = "got" /\ ~hlocal[c].some) =>
            \A random_key \in 0..(HashSpace - 1) :
               /\ Binding(hlocal[c], random_key).seed = RandomSeed
               /\ ParsePubkey(Binding(hlocal[c], random_key).vanity_pubkey).ok)
    /\ [][\A c \in Callers :
            /\ (hpc[c] = "got" /\ ~hlocal[c].some /\ hpc'[c] = "idle")
                  => (resp'.status = 200 \/ resp'.cause = "client")
            /\ (Took(c) /\ pool = <<>>) => (pool' = pool /\ hlocal'[c] = None)
         ]_vars

\* a handler is on the fallback path, past an empty pool of positive
\* capacity, while an earlier create request was answered 200
C9_Witness ==
    /\ pool_size > 0 /\ pool = <<>>
    /\ resp.status = 200 /\ resp.route = "create"
    /\ \E c \in Callers : hpc[c] = "got" /\ ~hlocal[c].some

(* C10: merge atomicity.  While the refill loop is inside its merge it    *)
(* holds the write lock alone, and no take() or size() observes the Pool  *)
(* in that interval: every observation is entirely before or entirely     *)
(* after a merge.                                                         *)
C10_MergeAtomicity ==
    /\ [](rpc = "extend" => lock = [writer |-> "refill", readers |-> {}])
    /\ [][((\E c \in Callers : Took(c))
            \/ (resp' /= resp /\ resp'.route = "size"))
          => rpc /= "extend"]_vars

\* a merge of two entries is half done
C10_Witness ==
    /\ rpc = "extend" /\ Len(new_vanity) = 1
    /\ pool /= <<>> /\ pool[Len(pool)].uid + 1 = new_vanity[1].uid

(* C5: capacity convergence.  As long as there has been no take() and     *)
(* every batch came back with the `needed` entries it was asked for, the  *)
(* pool size never decreases, the only cycle that runs is the first one   *)
(* (it asks for the whole capacity and its merge fills the Pool), and the *)
(* size reaches the capacity and stays there.                             *)
C5_CapacityConvergence ==
    /\ [][steady' => Len(pool') >= Len(pool)]_vars
    /\ [](steady =>
            /\ rpc \in {"launch", "wait"} => (pool = <<>> /\ needed = pool_size)
            /\ rpc \in {"wlock", "extend"} =>
                  Len(pool) + Len(new_vanity) = pool_size
            /\ rpc = "sleep" => Len(pool) = pool_size)
    /\ <>[](~steady \/ Len(pool) = pool_size)

\* the loop idles on a Pool filled to a positive capacity by full batches,
\* nothing taken
C5_Witness ==
    /\ steady /\ pool_size = MaxPoolSize
    /\ Len(pool) = pool_size /\ rpc = "sleep"

\* the merge of a collected batch is complete
MergeDone == rpc = "extend" /\ new_vanity = <<>>

(* C6: refill responsiveness.  Whenever the pool size is below capacity,  *)
(* the refill loop later completes the merge of a batch, so it never      *)
(* stays idle for ever while the size is below capacity.                  *)
C6_RefillResponsive == (Len(pool) < pool_size) ~> MergeDone

\* a merge is completed after the Pool has been drained by take()
C6_Witness ==
    /\ MergeDone /\ pool /= <<>>
    /\ \E u \in 1..MaxUid : delivered[u] = 1 /\ u < pool[1].uid

\* how many entries of q carry serial number u
CountUid(q, u) == Cardinality({i \in 1..Len(q) : q[i].uid = u})

(* C11: entry conservation.  The Pool starts empty and changes only by a  *)
(* push of the refill loop's merge or by a take() removing the entry it   *)
(* returns; every entry was merged at most once, and the entries merged   *)
(* so far are exactly those in the Pool plus those returned by take().    *)
C11_EntryConservation ==
    /\ pool = <<>>
    /\ [](\A u \in 1..MaxUid :
            /\ merged[u] <= 1
            /\ merged[u] = CountUid(pool, u) + delivered[u])
    /\ [][pool' /= pool =>
            \/ /\ rpc = "extend" /\ lock.writer = "refill"
               /\ new_vanity /= <<>>
               /\ pool' = Append(pool, Head(new_vanity))
               /\ \A c \in Callers : ~Took(c)
            \/ \E c \in Callers :
                  /\ Took(c) /\ hlocal'[c].some
                  /\ pool = Append(pool', hlocal'[c].val)]_vars

\* two entries were merged: one is in the Pool, the other was taken
C11_Witness ==
    \E u, v \in 1..MaxUid :
        u /= v /\ delivered[u] = 1 /\ CountUid(pool, v) = 1

(* C12: the pool size never exceeds the capacity.  A batch holds at most  *)
(* the `needed` entries it was asked for, `needed` plus the size is at    *)
(* most the capacity from the size check to the merge (only take() runs   *)
(* in between), and so the size stays within [0, capacity].               *)
C12_SizeWithinCapacity ==
    /\ Len(pool) <= pool_size
    /\ Len(batch.found) <= batch.count
    /\ rpc = "wait" => batch.count = needed
    /\ rpc \in {"launch", "wait"} => Len(pool) + needed <= pool_size
    /\ rpc \in {"wlock", "extend"} =>
          /\ Len(new_vanity) <= needed
          /\ Len(pool) + Len(new_vanity) <= pool_size

\* the Pool is full again after an entry was taken from it
C12_Witness ==
    /\ pool_size > 0 /\ Len(pool) = pool_size /\ rpc = "sleep"
    /\ \E u \in 1..MaxUid : delivered[u] = 1

(* C13: backpressure.  The size check goes on to a launch only when the   *)
(* size n it reads is below the capacity, with needed = capacity - n > 0; *)
(* when n >= capacity it goes to the idle sleep and from there back to    *)
(* the check, without a batch and without a change of the Pool.  A batch  *)
(* starts only from that launch, asked for `needed` entries.              *)
C13_Backpressure ==
    /\ [](rpc \in {"launch", "wait"} =>
            needed > 0 /\ needed <= pool_size)
    /\ [](rpc \in {"loop", "len", "sleep"} => batch = NoBatch)
    /\ [][(rpc = "len" /\ rpc' /= "len") =>
            IF Len(pool) >= pool_size
            THEN /\ rpc' = "sleep"
                 /\ pool' = pool /\ batch' = batch /\ needed' = needed
            ELSE /\ rpc' = "launch"
                 /\ needed' = pool_size - Len(pool) /\ needed' > 0
                 /\ pool' = pool /\ batch' = batch]_vars
    /\ [][(rpc = "sleep" /\ rpc' /= "sleep") =>
            (rpc' = "loop" /\ pool' = pool /\ batch' = batch)]_vars
    /\ [][(batch = NoBatch /\ batch' /= NoBatch) =>
            (rpc = "launch" /\ rpc' = "wait" /\ batch'.count = needed)]_vars

\* a launch for a part of the capacity: the check found the Pool half full
C13_Witness == rpc = "launch" /\ 0 < needed /\ needed < pool_size

(* C14: worker stop condition.  A worker makes an attempt only while its  *)
(* buffer holds fewer than `needed` entries and its attempt count is      *)
(* below the ceiling, each attempt adds one to the count, the count never *)
(* exceeds the ceiling, and the worker stops for good, also when no seed  *)
(* matches and when its buffer is taken while it runs.                    *)
C14_WorkerStops ==
    /\ [](batch.attempts <= AttemptCeiling)
    /\ [][batch'.attempts /= batch.attempts =>
            /\ Len(batch.found) < batch.count
            /\ batch.attempts < AttemptCeiling
            /\ batch'.attempts = batch.attempts + 1]_vars
    /\ <>[](Len(batch.found) >= batch.count
            \/ batch.attempts >= AttemptCeiling)

\* the ceiling was reached with nothing found and nothing taken before
C14_Witness ==
    /\ batch.attempts = AttemptCeiling /\ batch.found = <<>>
    /\ batch.count > 0 /\ new_vanity = <<>>

(* C15: partial batch results.  What the refill loop takes from a batch   *)
(* at the end of the time-box is exactly what was found so far, also when *)
(* that is fewer than `needed` or nothing; the merge pushes these entries *)
(* in order under the write lock and ends only when all are pushed; and   *)
(* after a batch that came back short the loop gets to a new launch, for  *)
(* capacity minus the size it then reads.                                 *)
C15_PartialBatchMerged ==
    /\ [][(rpc = "wait" /\ rpc' /= "wait") =>
            (rpc' = "wlock" /\ new_vanity' = batch.found)]_vars
    /\ [][(rpc = "extend" /\ (pool' /= pool \/ new_vanity' /= new_vanity)) =>
            /\ lock.writer = "refill" /\ new_vanity /= <<>>
            /\ pool' = Append(pool, Head(new_vanity))
            /\ new_vanity' = Tail(new_vanity)]_vars
    /\ [][(rpc = "extend" /\ rpc' /= "extend") => new_vanity = <<>>]_vars
    /\ (rpc = "wlock" /\ Len(new_vanity) < needed)
          ~> (rpc = "launch" /\ needed = pool_size - Len(pool))

\* a batch that came back with one entry of two is merged, nothing taken
C15_Witness ==
    /\ MergeDone /\ 0 < Len(pool) /\ Len(pool) < pool_size
    /\ \A u \in 1..MaxUid : delivered[u] = 0

(* C16: the time-box is a maximum wait.  The refill loop stops waiting as *)
(* soon as the batch holds `needed` entries, so the 60 s sleep runs to    *)
(* its end, which is how the loop comes to take the results, only on a    *)
(* batch that is still short of `needed`.                                 *)
C16_TimeBoxIsMaximum ==
    [][(rpc = "wait" /\ rpc' /= "wait") =>
          Len(batch.found) < batch.count]_vars

(* C17: batch self-cancellation.  Once the refill loop has taken a        *)
(* batch's results no worker of that batch makes a further attempt: the   *)
(* workers whose buffer was taken change only when a collection adds to   *)
(* them, never by a turn of their own, and none of them is left to run   *)
(* next to a later batch.                                                 *)
C17_SelfCancellation ==
    [][/\ stale' /= stale => (rpc = "wait" /\ rpc' = "wlock")
       /\ rpc' = "wait" => stale' = EmptyBag]_vars

(* C18: derivation errors are attempt-local.  A turn on a seed that       *)
(* create_with_seed rejects appends nothing, adds one to the attempt      *)
(* count and leaves the worker in its loop unless the ceiling is reached; *)
(* and a turn of the worker changes nothing but its own buffer and count: *)
(* not the Pool, the refill loop's position or results, or a response.    *)
C18_DerivationErrorsLocal ==
    /\ [](\A seed \in AnySeeds :
            ~CreateWithSeed(authority_pubkey, seed, SplTokenId).ok =>
               /\ Turn(batch, seed, 0).found = batch.found
               /\ Turn(batch, seed, 0).attempts = batch.attempts + 1
               /\ Turn(batch, seed, 0).count = batch.count
               /\ (Len(batch.found) < batch.count
                     /\ batch.attempts + 1 < AttemptCeiling)
                    => Searching(Turn(batch, seed, 0)))
    /\ [][(batch' /= batch /\ rpc' = rpc) =>
            /\ batch'.attempts = batch.attempts + 1
            /\ batch'.found = batch.found
                  \/ (/\ Len(batch'.found) = Len(batch.found) + 1
                      /\ WellDerived(batch'.found[Len(batch'.found)]))
            /\ UNCHANGED <<pool, lock, new_vanity, needed, resp, hpc,
                           hlocal>>]_vars

\* every address ends with the empty suffix, so the attempt that found
\* nothing was made on a seed create_with_seed rejected
C18_Witness ==
    /\ suffix = <<>> /\ rpc = "wait"
    /\ batch.attempts = 1 /\ batch.found = <<>>

(* C19: parallel fan-out.  While a batch is being searched, several       *)
(* workers run on it concurrently and share its results buffer.           *)
C19_ParallelFanOut ==
    rpc = "wait" => Cardinality(BatchClosures) >= 2

(* C20: no found match is lost.  Every entry a worker appends to its      *)
(* batch's buffer gets merged into the Pool, so no entry ever sits in the *)
(* buffer of a worker whose results were already taken.                   *)
C20_NoMatchLost ==
    \A w \in BagToSet(stale) : w.found = <<>>

====
